---- MODULE Spec2Model ----
(***************************************************************************)
(* Model of the jmdict-simple build pipeline:                               *)
(*   build.js  main    -> update(tag) -> convert(filename)                  *)
(*   update.js update  -> getAsset -> downloadAsset -> unpackAsset -> rm    *)
(*   convert.js convert -> readFile -> index -> writeFile -> gzip           *)
(* Strings are sequences of one-character strings, so that startsWith,      *)
(* endsWith and path.join are computed and not assumed.                     *)
(***************************************************************************)
EXTENDS Integers, Sequences, FiniteSets, TLC

\* ------------------------------------------------------------------------
\* Bounds of the model
\* ------------------------------------------------------------------------
MaxAssets == 2
MaxEntries == 2
MaxChunks == 1

\* ------------------------------------------------------------------------
\* Promises: a promise is pending, or settled with null, or settled with a
\* value; the value is wrapped in a one-element sequence.
\* ------------------------------------------------------------------------
Pending == [st |-> "pending", v |-> <<>>]
Null == [st |-> "null", v |-> <<>>]
Val(x) == [st |-> "value", v |-> <<x>>]
IsPending(p) == p.st = "pending"
IsNull(p) == p.st = "null"
IsVal(p) == p.st = "value"
Get(p) == p.v[1]
\* resolve(x) on a promise: only the first call settles it.
Resolve(p, r) == IF IsPending(p) THEN r ELSE p

SeqsUpTo(S, n) == UNION {[1..k -> S] : k \in 0..n}

\* ------------------------------------------------------------------------
\* String.prototype.startsWith / endsWith
\* ------------------------------------------------------------------------
StartsWith(s, p) == Len(p) <= Len(s) /\ SubSeq(s, 1, Len(p)) = p
EndsWith(s, p) == Len(p) <= Len(s) /\ SubSeq(s, Len(s) - Len(p) + 1, Len(s)) = p

\* ------------------------------------------------------------------------
\* update.js module constants (the two literals are abbreviated:
\* 'jmdict-all-' to "j-", 'json.tgz' to "tz")
\* ------------------------------------------------------------------------
prefix == <<"j", "-">>
extension == <<"t", "z">>
\* a falsy string argument (null, undefined, '')
NoString == <<>>

\* ------------------------------------------------------------------------
\* getAsset: the 'end' handler of the metadata response
\* ------------------------------------------------------------------------
AssetNames ==
  { prefix \o <<"1">> \o extension,
    prefix \o <<"2">> \o extension,
    prefix \o <<"1">>,
    <<"1">> \o extension,
    <<"x">> }
\* one release asset per name; the url is the asset's own
AssetPool == { [name |-> n, browser_download_url |-> [id |-> 0, base |-> n]] : n \in AssetNames }

\* parsed bodies: "assets" is missing, or a list
BodyNoAssets == [kind |-> "json", hasAssets |-> FALSE, assets |-> <<>>]
BodyUnparsable == [kind |-> "garbage", hasAssets |-> FALSE, assets |-> <<>>]
BodyList(l) == [kind |-> "json", hasAssets |-> TRUE, assets |-> l]
Bodies == {BodyNoAssets, BodyUnparsable} \cup {BodyList(l) : l \in SeqsUpTo(AssetPool, MaxAssets)}
MetaStatuses == {200, 204, 301, 404, 500}

Is2xx(status) == status >= 200 /\ status < 300

\* faulty variant of AssetMatches: the prefix is not tested
AssetMatchesNoPrefixCheck(a, pre, ext) ==
  IF ext # NoString THEN EndsWith(a.name, ext) ELSE TRUE
\* the filter callback, update.js 102-113
AssetMatches(a, pre, ext) ==
  LET prefixMatch == IF pre # NoString THEN StartsWith(a.name, pre) ELSE TRUE
      extensionMatch == IF ext # NoString THEN EndsWith(a.name, ext) ELSE TRUE
  IN prefixMatch /\ extensionMatch

\* Array.prototype.filter, keeping the order
RECURSIVE Filter(_, _, _)
Filter(l, pre, ext) ==
  IF l = <<>> THEN <<>>
  ELSE IF AssetMatches(Head(l), pre, ext)
       THEN <<Head(l)>> \o Filter(Tail(l), pre, ext)
       ELSE Filter(Tail(l), pre, ext)

\* faulty variant of GetAssetEnd: the status code is not tested
GetAssetEndNon2xxParsed(status, body, pre, ext) ==
  IF body.kind # "json" THEN Null
  ELSE IF ~body.hasAssets \/ Len(body.assets) = 0 THEN Null
  ELSE LET matchingAssets == Filter(body.assets, pre, ext)
       IN IF Len(matchingAssets) > 0 THEN Val(matchingAssets[1]) ELSE Null
\* what the 'end' handler resolves the promise with, update.js 93-127
GetAssetEnd(status, body, pre, ext) ==
  IF Is2xx(status)
  THEN IF body.kind # "json" THEN Null
       ELSE IF ~body.hasAssets \/ Len(body.assets) = 0 THEN Null
       ELSE LET matchingAssets == Filter(body.assets, pre, ext)
            IN IF Len(matchingAssets) > 0 THEN Val(matchingAssets[1]) ELSE Null
  ELSE Null

\* ------------------------------------------------------------------------
\* Paths: path.normalize and path.join (posix) on character sequences
\* ------------------------------------------------------------------------
SEP == "/"
DOT == <<".">>
DOTDOT == <<".", ".">>

\* split on "/" into segments (empty segments included)
RECURSIVE SplitAcc(_, _, _)
SplitAcc(s, cur, acc) ==
  IF s = <<>> THEN Append(acc, cur)
  ELSE IF Head(s) = SEP THEN SplitAcc(Tail(s), <<>>, Append(acc, cur))
       ELSE SplitAcc(Tail(s), Append(cur, Head(s)), acc)
Split(s) == SplitAcc(s, <<>>, <<>>)

\* resolve "." and ".." segments; above the root ".." is dropped, in a
\* relative path a leading ".." is kept
RECURSIVE ResolveSegs(_, _, _)
ResolveSegs(todo, acc, isAbs) ==
  IF todo = <<>> THEN acc
  ELSE LET seg == Head(todo) IN
       IF seg = <<>> \/ seg = DOT THEN ResolveSegs(Tail(todo), acc, isAbs)
       ELSE IF seg = DOTDOT
            THEN IF acc # <<>> /\ acc[Len(acc)] # DOTDOT
                 THEN ResolveSegs(Tail(todo), SubSeq(acc, 1, Len(acc) - 1), isAbs)
                 ELSE IF isAbs THEN ResolveSegs(Tail(todo), acc, isAbs)
                      ELSE ResolveSegs(Tail(todo), Append(acc, seg), isAbs)
            ELSE ResolveSegs(Tail(todo), Append(acc, seg), isAbs)

RECURSIVE JoinSegs(_)
JoinSegs(segs) ==
  IF segs = <<>> THEN <<>>
  ELSE IF Len(segs) = 1 THEN segs[1]
       ELSE segs[1] \o <<SEP>> \o JoinSegs(Tail(segs))

\* path.normalize
Normalize(p) ==
  IF p = <<>> THEN DOT
  ELSE LET isAbs == p[1] = SEP
           trailing == p[Len(p)] = SEP
           body == JoinSegs(ResolveSegs(Split(p), <<>>, isAbs))
           body2 == IF body = <<>> /\ ~isAbs THEN DOT ELSE body
           body3 == IF body2 # <<>> /\ trailing THEN body2 \o <<SEP>> ELSE body2
       IN IF isAbs THEN <<SEP>> \o body3 ELSE body3

\* path.join(a, b)
PathJoin(a, b) ==
  IF a = <<>> THEN Normalize(b)
  ELSE IF b = <<>> THEN Normalize(a)
       ELSE Normalize(a \o <<SEP>> \o b)

\* __dirname of src/ ("/r/s"), and the module constant dataFolder ("../d")
dirname == <<"/", "r", "/", "s">>
dataFolder == <<".", ".", "/", "d">>
\* update.js 48: path.join(__dirname, dataFolder)
outputFolder == PathJoin(dirname, dataFolder)

\* faulty variant of FilterAccepts: the test is inverted
FilterInverted(destinationDir, filePath) ==
  LET absolutePath == PathJoin(destinationDir, filePath)
  IN ~StartsWith(absolutePath, destinationDir)
\* the filter option of tar.extract, update.js 238-245
FilterAccepts(destinationDir, filePath) ==
  LET absolutePath == PathJoin(destinationDir, filePath)
  IN StartsWith(absolutePath, destinationDir)

\* faulty variant of OnEntry: the entry type is not tested
OnEntryAnyType(names, e) == Append(names, e.path)
\* the onentry option of tar.extract, update.js 233-237
OnEntry(names, e) ==
  IF e.type = "File" \/ e.type = "Directory" THEN Append(names, e.path) ELSE names

\* archive entries the unpack stage may yield
ArchiveEntries ==
  { [path |-> <<"a">>, type |-> "File"],
    [path |-> <<"b", "/">>, type |-> "Directory"],
    [path |-> <<"l">>, type |-> "SymbolicLink"],
    [path |-> <<".", ".", "/", ".", ".", "/", "e">>, type |-> "File"],
    [path |-> <<".", ".", "/", "d", "2", "/", "a">>, type |-> "File"] }

\* ------------------------------------------------------------------------
\* downloadAsset helpers
\* ------------------------------------------------------------------------
MaxRedirects == 5
\* faulty variant of TooManyRedirects: one redirect more is followed
TooManyRedirectsOffByOne(count) == count > MaxRedirects + 1
\* update.js 159
TooManyRedirects(count) == count > MaxRedirects

\* urls a Location header may carry
RedirectUrls == { [id |-> 1, base |-> <<"y">>] }
DlStatuses == {200, 302, 404}
Is3xx(status) == status >= 300 /\ status < 400

\* update.js 172: filename || path.basename(new URL(finalUrl).pathname)
FileNameOf(filename, finalUrl) == IF filename # NoString THEN filename ELSE finalUrl.base

\* faulty variant of UpdateFailed: the null test is missing
UpdateFailedNever(r) == FALSE
\* build.js 18
UpdateFailed(r) == IsNull(r)

\* ------------------------------------------------------------------------
\* convert.js: the dictionary data and the index built from it.  Texts are
\* sequences of UTF-16 code units.
\* ------------------------------------------------------------------------
MaxWords == 2
MaxKanaLen == 3
MaxRuns == 2

\* the range of the regular expression and the offset, convert.js 73
HiraganaFirst == 12352
HiraganaLast == 12447
KatakanaOffset == 96
\* String.fromCharCode keeps 16 bits
CodeUnitRange == 65536

\* faulty variant of IsHiragana: the last code unit of the range is left out
IsHiraganaOpenEnd(c) == c >= HiraganaFirst /\ c < HiraganaLast
\* /[\u3040-\u309F]/ on one code unit
IsHiragana(c) == c >= HiraganaFirst /\ c <= HiraganaLast

\* faulty variant of ToKatakana: the expression without its g flag, which
\* replaces the first match only
ToKatakanaFirstMatch(text) ==
  LET Matches == { i \in 1..Len(text) : IsHiragana(text[i]) }
  IN [i \in 1..Len(text) |->
        IF i \in Matches /\ \A j \in Matches : i <= j
        THEN (text[i] + KatakanaOffset) % CodeUnitRange
        ELSE text[i]]
\* kana.text.replace(/[\u3040-\u309F]/g, match =>
\*   String.fromCharCode(match.charCodeAt(0) + 0x60)), convert.js 73
ToKatakana(text) ==
  [i \in 1..Len(text) |->
     IF IsHiragana(text[i]) THEN (text[i] + KatakanaOffset) % CodeUnitRange ELSE text[i]]

\* code units around both ends of the range, a katakana and a latin letter
KanaAlphabet == {12351, 12352, 12354, 12447, 12448, 97}
KanaTexts == SeqsUpTo(KanaAlphabet, MaxKanaLen)

\* faulty variant of SetAdd: a plain array push
SetAddAgain(s, x) == Append(s, x)
\* Set.prototype.add: values keep their insertion order, convert.js 78-79
SetAdd(s, x) == IF \E i \in 1..Len(s) : s[i] = x THEN s ELSE Append(s, x)

\* kanjiList.forEach(kanji => h2kk[hiragana].kanji.add(kanji)), convert.js 79
RECURSIVE AddAll(_, _)
AddAll(s, list) == IF list = <<>> THEN s ELSE AddAll(SetAdd(s, Head(list)), Tail(list))

\* h2kk is the sequence of its buckets in insertion order of their keys
HasKey(h2kk, h) == \E i \in 1..Len(h2kk) : h2kk[i].key = h

\* faulty variant of AddKana: the kanji are added only when the bucket is made
AddKanaOnCreate(h2kk, hiragana, katakana, kanjiList) ==
  IF HasKey(h2kk, hiragana)
  THEN [i \in 1..Len(h2kk) |->
          IF h2kk[i].key = hiragana
          THEN [h2kk[i] EXCEPT !.katakana = SetAdd(@, katakana)]
          ELSE h2kk[i]]
  ELSE Append(h2kk, [key |-> hiragana, katakana |-> <<katakana>>,
                     kanji |-> AddAll(<<>>, kanjiList)])
\* one reading of one entry, convert.js 74-79
AddKana(h2kk, hiragana, katakana, kanjiList) ==
  LET made == IF HasKey(h2kk, hiragana)
              THEN h2kk
              ELSE Append(h2kk, [key |-> hiragana, katakana |-> <<>>, kanji |-> <<>>])
  IN [i \in 1..Len(made) |->
        IF made[i].key = hiragana
        THEN [made[i] EXCEPT !.katakana = SetAdd(@, katakana),
                             !.kanji = AddAll(@, kanjiList)]
        ELSE made[i]]

\* kanaElements.forEach, convert.js 71-80
RECURSIVE AddReadings(_, _, _)
AddReadings(h2kk, kanaElements, kanjiList) ==
  IF kanaElements = <<>> THEN h2kk
  ELSE AddReadings(AddKana(h2kk, Head(kanaElements), ToKatakana(Head(kanaElements)),
                           kanjiList),
                   Tail(kanaElements), kanjiList)

\* jmdictData.words.forEach, convert.js 63-81; an entry's kanji and kana
\* are the texts of its elements, empty when the field is missing
RECURSIVE IndexWords(_, _)
IndexWords(h2kk, words) ==
  IF words = <<>> THEN h2kk
  ELSE IndexWords(AddReadings(h2kk, Head(words).kana, Head(words).kanji), Tail(words))

\* texts: two kanji, two hiragana readings, one katakana reading
KanjiA == <<24859>>
KanjiB == <<20124>>
KanaAi == <<12354, 12356>>
KanaA == <<12354>>
KataA == <<12450>>

EntryPool ==
  { [kanji |-> <<KanjiA>>, kana |-> <<KanaAi>>],
    [kanji |-> <<KanjiA, KanjiB>>, kana |-> <<KanaAi, KanaA>>],
    [kanji |-> <<>>, kana |-> <<KanaAi>>],
    [kanji |-> <<KanjiB>>, kana |-> <<>>],
    [kanji |-> <<KanjiB>>, kana |-> <<KataA, KanaA>>],
    [kanji |-> <<KanjiA, KanjiA>>, kana |-> <<KanaA, KanaA>>] }

\* the content of the source file: nothing chosen yet, not JSON, JSON
\* without 'words', or a dictionary
NoSource == [kind |-> "none", version |-> <<>>, dictDate |-> <<>>, words |-> <<>>]
Garbage == [kind |-> "garbage", version |-> <<>>, dictDate |-> <<>>, words |-> <<>>]
Versions == { <<51>> }
DictDates == { <<49>>, <<50>> }
NoWordsSources == [kind : {"nowords"}, version : Versions, dictDate : {<<49>>}, words : {<<>>}]
Dictionaries ==
  [kind : {"dictionary"}, version : Versions, dictDate : DictDates,
   words : SeqsUpTo(EntryPool, MaxWords)]
Sources == {Garbage} \cup NoWordsSources \cup Dictionaries
\* the sources the pipeline is run with
SampleSources ==
  {Garbage} \cup NoWordsSources \cup
  { [kind |-> "dictionary", version |-> <<51>>, dictDate |-> <<49>>,
     words |-> << [kanji |-> <<KanjiA>>, kana |-> <<KanaAi>>],
                  [kanji |-> <<KanjiA, KanjiB>>, kana |-> <<KanaAi, KanaA>>] >>] }

\* JSON.stringify(finalOutput), convert.js 83-98: the document as the code
\* units of its JSON text; the texts of the model need no escaping
RECURSIVE Concat(_, _)
Concat(parts, sep) ==
  IF parts = <<>> THEN <<>>
  ELSE IF Len(parts) = 1 THEN parts[1]
  ELSE parts[1] \o sep \o Concat(Tail(parts), sep)
JsonString(text) == <<34>> \o text \o <<34>>
JsonArray(texts) ==
  <<91>> \o Concat([i \in 1..Len(texts) |-> JsonString(texts[i])], <<44>>) \o <<93>>
JsonMember(name, json) == JsonString(name) \o <<58>> \o json
JsonObject(members) == <<123>> \o Concat(members, <<44>>) \o <<125>>
NameVersion == << 118, 101, 114, 115, 105, 111, 110 >>
NameDictDate == << 100, 105, 99, 116, 68, 97, 116, 101 >>
NameWords == << 119, 111, 114, 100, 115 >>
NameKatakana == << 107, 97, 116, 97, 107, 97, 110, 97 >>
NameKanji == << 107, 97, 110, 106, 105 >>
JsonBucket(b) ==
  JsonObject(<< JsonMember(NameKatakana, JsonArray(b.katakana)),
                JsonMember(NameKanji, JsonArray(b.kanji)) >>)
Serialize(doc) ==
  JsonObject(<< JsonMember(NameVersion, JsonString(doc.version)),
                JsonMember(NameDictDate, JsonString(doc.dictDate)),
                JsonMember(NameWords,
                           JsonObject([i \in 1..Len(doc.words) |->
                                         JsonMember(doc.words[i].key,
                                                    JsonBucket(doc.words[i]))])) >>)

\* zlib.createGzip(), convert.js 108: a lossless encoding of the data
\* between the gzip magic number and the length of the data
GzipMagic == << 31, 139 >>
Deflate(data) == [i \in 1..Len(data) |-> (data[i] + i) % CodeUnitRange]
Inflate(z) == [i \in 1..Len(z) |-> (z[i] + CodeUnitRange - i) % CodeUnitRange]
Gzip(data) == GzipMagic \o Deflate(data) \o << Len(data) >>
\* what decompressing the file gives; a file without the magic number or
\* cut short is not a gzip file
NotGzip == << -1 >>
Gunzip(bytes) ==
  IF /\ Len(bytes) >= 3 /\ StartsWith(bytes, GzipMagic)
     /\ bytes[Len(bytes)] = Len(bytes) - 3
  THEN Inflate(SubSeq(bytes, 3, Len(bytes) - 1))
  ELSE NotGzip

\* ------------------------------------------------------------------------
\* State
\* ------------------------------------------------------------------------
VARIABLES
  entry,          \* the script that runs: "build" (build.js) or "update" (update.js)
  tagArg,         \* the tag handed to update: "string", "undefined" or "other"
  dirExists,      \* whether the data directory exists
  bpc,            \* build.js main: "start", "awaitUpdate", "awaitConvert", "reported";
                  \* "none" once update.js runs on its own
  success,        \* build.js main: "none", TRUE or FALSE
  upc,            \* update: "idle", "awaitAsset", "awaitDownload", "awaitUnpack", "returned"
  updateResult,   \* what update returned
  rmSync,         \* update's fs.rmSync of the archive: "none", "done", "threw"
  started,        \* the stages that have been called
  metaReq,        \* getAsset's request: "none", "inflight", "done"
  assetP,         \* getAsset's promise
  dlP,            \* downloadAsset's promise
  downloadURL,    \* doDownload's current url
  dlName,         \* downloadAsset's filename argument
  redirectCount,  \* doDownload's redirectCount
  requests,       \* number of download requests issued
  reqState,       \* the current download request: "none", "inflight", "responded", "errored", "done"
  fileStream,     \* the download's write stream: "none", "open", "finished", "errored"
  bodyLeft,       \* chunks of the response body not yet written
  archive,        \* the archive file in the data directory: "absent", "partial", "complete"
  unP,            \* unpackAsset's promise
  filenames,      \* unpackAsset's filenames
  isErrored,      \* unpackAsset's isErrored
  streams,        \* readStream, gunzipStream, tarExtractStream: "none", "active", "destroyed"
  emitted,        \* the streams that have emitted 'error'
  tarFinished,    \* tarExtractStream has emitted 'finish'
  seen,           \* the entries the unpack stage has yielded, in order
  accepted,       \* the entries the filter returned true for
  written,        \* absolute paths written by the unpack stage
  resolveCalls,   \* number of calls of unpackAsset's resolve
  firstEvent,     \* which of 'error' and 'finish' unpackAsset handled first
  cpc,            \* convert: "idle", "reading", "writing", "gzipping", "settled", "uncaught"
  convP,          \* convert's promise
  plainFile,      \* release/simple.min.json: "absent", "partial", "written"
  gzFile,         \* release/simple.min.json.gz: "absent", "partial", "complete"
  convArg,        \* convert's fileName argument
  runs,           \* number of calls of convert
  srcFile,        \* the content of the source file convert reads
  finalOutput,    \* convert's finalOutput
  docs,           \* the finalOutput of every call of convert that built one
  plainData,      \* the content of release/simple.min.json
  gzData,         \* the content of release/simple.min.json.gz
  fault,          \* what failed in the current call of convert: "none", "fileName",
                  \* "missing", "read", "badjson", "nowords", "write", "gzip"
  writes,         \* the output files the current call of convert has written to
  gaIn,           \* a call of getAsset on its own: its arguments and the response
  gaOut,          \* and what it resolved to
  kanaIn,         \* the conversion to katakana on its own: the text of a reading
  kanaOut         \* and the converted text

vars == << entry, tagArg, dirExists, bpc, success, upc, updateResult, rmSync, started,
           metaReq, assetP, dlP, downloadURL, dlName, redirectCount, requests, reqState,
           fileStream, bodyLeft, archive, unP, filenames, isErrored, streams,
           emitted, tarFinished, seen, accepted, written, resolveCalls, firstEvent,
           cpc, convP, plainFile, gzFile, convArg, runs, srcFile, finalOutput, docs,
           plainData, gzData, fault, writes, gaIn, gaOut, kanaIn, kanaOut >>

buildVars == << bpc, success >>
updateVars == << upc, updateResult, rmSync >>
assetVars == << metaReq, assetP >>
dlVars == << dlP, downloadURL, dlName, redirectCount, requests, reqState, fileStream, bodyLeft >>
unpackVars == << unP, filenames, isErrored, streams, emitted, tarFinished, seen, accepted,
                 written, resolveCalls, firstEvent >>
convVars == << cpc, convP, plainFile, gzFile, convArg, runs, srcFile, finalOutput, docs,
               plainData, gzData, fault, writes >>
inputVars == << entry, tagArg, dirExists >>
gaVars == << gaIn, gaOut >>
kanaVars == << kanaIn, kanaOut >>

StreamNames == {"readStream", "gunzipStream", "tarExtractStream"}
NoUrl == [id |-> 0, base |-> <<>>]
NoDoc == [version |-> <<>>, dictDate |-> <<>>, words |-> <<>>]
NoCall == [event |-> "none", status |-> 0, body |-> BodyNoAssets, pre |-> NoString, ext |-> NoString]

Idle ==
  /\ bpc = "start" /\ success = "none"
  /\ upc = "idle" /\ updateResult = Pending /\ rmSync = "none"
  /\ started = {}
  /\ metaReq = "none" /\ assetP = Pending
  /\ dlP = Pending /\ downloadURL = NoUrl /\ dlName = NoString
  /\ redirectCount = 0 /\ requests = 0
  /\ reqState = "none" /\ fileStream = "none" /\ bodyLeft = 0
  /\ archive = "absent"
  /\ unP = Pending /\ filenames = <<>> /\ isErrored = FALSE
  /\ streams = [s \in StreamNames |-> "none"]
  /\ emitted = {} /\ tarFinished = FALSE
  /\ seen = <<>> /\ accepted = {} /\ resolveCalls = 0
  /\ firstEvent = "none"
  /\ cpc = "idle" /\ convP = Pending /\ plainFile = "absent" /\ gzFile = "absent"
  /\ convArg = Null /\ runs = 0 /\ finalOutput = NoDoc /\ docs = <<>>
  /\ plainData = <<>> /\ gzData = <<>> /\ fault = "none" /\ writes = {}

Init ==
  /\ entry \in {"build", "update"}
  /\ tagArg \in {"string", "undefined", "other"}
  \* build.js hands over process.argv[2]: a string or undefined
  /\ entry = "build" => tagArg # "other"
  /\ entry = "update" => tagArg # "undefined"
  /\ dirExists \in BOOLEAN
  /\ Idle
  /\ written = {} /\ srcFile = NoSource
  /\ gaIn = NoCall /\ gaOut = Pending
  /\ kanaIn = <<>> /\ kanaOut = Pending

\* ------------------------------------------------------------------------
\* build.js main / update.js main: the call of update(tag), up to its first
\* await (update.js 35-41)
\* ------------------------------------------------------------------------
Main ==
  /\ bpc = "start" /\ upc = "idle"
  /\ bpc' = IF entry = "build" THEN "awaitUpdate" ELSE "none"
  /\ IF tagArg = "other"
     THEN \* typeof tag !== 'string'
          /\ upc' = "returned" /\ updateResult' = Null /\ rmSync' = rmSync
          /\ UNCHANGED << started, assetVars >>
     ELSE \* an undefined tag takes the default; getAsset issues its request
          /\ upc' = "awaitAsset" /\ updateResult' = updateResult /\ rmSync' = rmSync
          /\ started' = started \cup {"getAsset"}
          /\ metaReq' = "inflight" /\ assetP' = assetP
  /\ UNCHANGED << success, dlVars, archive, unpackVars, convVars, inputVars, gaVars, kanaVars >>

\* getAsset: 'end' of the metadata response (update.js 93-127)
GetAssetResponse ==
  /\ metaReq = "inflight"
  /\ \E status \in MetaStatuses, body \in Bodies :
       assetP' = Resolve(assetP, GetAssetEnd(status, body, prefix, extension))
  /\ metaReq' = "done"
  /\ UNCHANGED << buildVars, updateVars, started, dlVars, archive, unpackVars, convVars,
                  inputVars, gaVars, kanaVars >>

\* getAsset: 'error' of the metadata request (update.js 128-131)
GetAssetError ==
  /\ metaReq = "inflight"
  /\ assetP' = Resolve(assetP, Null)
  /\ metaReq' = "done"
  /\ UNCHANGED << buildVars, updateVars, started, dlVars, archive, unpackVars, convVars,
                  inputVars, gaVars, kanaVars >>

\* doDownload(url, count), update.js 158-163: either gives up or issues a request
DoDownload(url, count) ==
  /\ redirectCount' = count
  /\ downloadURL' = url
  /\ IF TooManyRedirects(count)
     THEN /\ dlP' = Resolve(dlP, Null)
          /\ reqState' = "none"
          /\ requests' = requests
     ELSE /\ dlP' = dlP
          /\ reqState' = "inflight"
          /\ requests' = requests + 1

\* update after "await getAsset" (update.js 42-49), with the synchronous part
\* of downloadAsset (update.js 146-157, 201)
UpdateAfterGetAsset ==
  /\ upc = "awaitAsset" /\ ~IsPending(assetP)
  /\ IF IsNull(assetP)
     THEN /\ upc' = "returned" /\ updateResult' = Null /\ rmSync' = rmSync
          /\ UNCHANGED << started, dlVars >>
     ELSE LET url == Get(assetP).browser_download_url
              fileName == Get(assetP).name
          IN /\ upc' = "awaitDownload" /\ updateResult' = updateResult /\ rmSync' = rmSync
             /\ started' = started \cup {"downloadAsset"}
             /\ dlName' = fileName
             /\ IF ~dirExists
                THEN /\ dlP' = Resolve(dlP, Null)
                     /\ UNCHANGED << downloadURL, redirectCount, requests, reqState >>
                ELSE DoDownload(url, 0)
             /\ UNCHANGED << fileStream, bodyLeft >>
  /\ UNCHANGED << buildVars, assetVars, archive, unpackVars, convVars, inputVars, gaVars, kanaVars >>

\* faulty variant of Response2xx: the path is resolved before 'finish'
Response2xxResolvesAtOnce(n) ==
  /\ fileStream' = "open"
  /\ bodyLeft' = n
  /\ archive' = IF n = 0 THEN "complete" ELSE "partial"
  /\ reqState' = "responded"
  /\ dlP' = Resolve(dlP, Val(PathJoin(outputFolder, FileNameOf(dlName, downloadURL))))
  /\ UNCHANGED << downloadURL, redirectCount, requests >>
\* the 2xx branch of the response callback, update.js 170-175: the write
\* stream is created and the response piped into it; n is the number of
\* chunks the body has
Response2xx(n) ==
  /\ fileStream' = "open"
  /\ bodyLeft' = n
  /\ archive' = IF n = 0 THEN "complete" ELSE "partial"
  /\ reqState' = "responded"
  /\ UNCHANGED << dlP, downloadURL, redirectCount, requests >>

\* the response callback of doDownload's request (update.js 169-194)
DownloadResponse ==
  /\ reqState = "inflight"
  /\ \E status \in DlStatuses, loc \in SeqsUpTo(RedirectUrls, 1), n \in 0..MaxChunks :
       IF Is2xx(status)
       THEN Response2xx(n)
       ELSE IF Is3xx(status) /\ loc # <<>>
            THEN /\ DoDownload(loc[1], redirectCount + 1)
                 /\ UNCHANGED << fileStream, bodyLeft, archive >>
            ELSE /\ dlP' = Resolve(dlP, Null)
                 /\ reqState' = "done"
                 /\ UNCHANGED << downloadURL, redirectCount, requests, fileStream, bodyLeft,
                                 archive >>
  /\ UNCHANGED << buildVars, updateVars, started, assetVars, dlName, unpackVars, convVars,
                  inputVars, gaVars, kanaVars >>

\* response.pipe(file): one chunk of the body reaches the file
DownloadData ==
  /\ reqState = "responded" /\ fileStream = "open" /\ bodyLeft > 0
  /\ bodyLeft' = bodyLeft - 1
  /\ archive' = IF bodyLeft' = 0 THEN "complete" ELSE "partial"
  /\ UNCHANGED << buildVars, updateVars, started, assetVars, dlP, downloadURL, dlName,
                  redirectCount, requests, reqState, fileStream, unpackVars, convVars,
                  inputVars, gaVars, kanaVars >>

\* file.on('finish'), update.js 176-180: emitted once the piped response has
\* ended and everything is flushed
DownloadFinish ==
  /\ reqState = "responded" /\ fileStream = "open" /\ bodyLeft = 0
  /\ fileStream' = "finished"
  /\ dlP' = Resolve(dlP, Val(PathJoin(outputFolder, FileNameOf(dlName, downloadURL))))
  /\ UNCHANGED << buildVars, updateVars, started, assetVars, downloadURL, dlName,
                  redirectCount, requests, reqState, bodyLeft, archive, unpackVars, convVars,
                  inputVars, gaVars, kanaVars >>

\* file.on('error'), update.js 181-185: unlinks the file, resolves null
DownloadFileError ==
  /\ fileStream = "open"
  /\ fileStream' = "errored"
  /\ archive' = "absent"
  /\ dlP' = Resolve(dlP, Null)
  /\ UNCHANGED << buildVars, updateVars, started, assetVars, downloadURL, dlName,
                  redirectCount, requests, reqState, bodyLeft, unpackVars, convVars,
                  inputVars, gaVars, kanaVars >>

\* the request's 'error' handler, update.js 195-198: a transport error before
\* the response, or while the body is still arriving
DownloadRequestError ==
  /\ \/ reqState = "inflight"
     \/ reqState = "responded" /\ fileStream = "open" /\ bodyLeft > 0
  /\ reqState' = "errored"
  /\ dlP' = Resolve(dlP, Null)
  /\ UNCHANGED << buildVars, updateVars, started, assetVars, downloadURL, dlName,
                  redirectCount, requests, fileStream, bodyLeft, archive, unpackVars,
                  convVars, inputVars, gaVars, kanaVars >>

\* ------------------------------------------------------------------------
\* unpackAsset
\* ------------------------------------------------------------------------
\* faulty variant of UpdateAfterDownload: downloadAsset is not awaited
UpdateAfterDownloadNoAwait ==
  /\ upc = "awaitDownload"
  /\ IF IsNull(dlP)
     THEN /\ upc' = "returned" /\ updateResult' = Null /\ rmSync' = rmSync
          /\ UNCHANGED << started, unpackVars >>
     ELSE /\ upc' = "awaitUnpack" /\ updateResult' = updateResult /\ rmSync' = rmSync
          /\ started' = started \cup {"unpackAsset"}
          /\ IF archive = "absent" \/ ~dirExists
             THEN /\ unP' = Resolve(unP, Null)
                  /\ UNCHANGED << streams, resolveCalls >>
             ELSE /\ streams' = [s \in StreamNames |-> "active"]
                  /\ UNCHANGED << unP, resolveCalls >>
          /\ UNCHANGED << filenames, isErrored, emitted, tarFinished, seen, accepted, written,
                          firstEvent >>
  /\ UNCHANGED << buildVars, assetVars, dlVars, archive, convVars, inputVars, gaVars, kanaVars >>
\* update after "await downloadAsset" (update.js 50-54), with the synchronous
\* part of unpackAsset (update.js 215-229, 264-266)
UpdateAfterDownload ==
  /\ upc = "awaitDownload" /\ ~IsPending(dlP)
  /\ IF IsNull(dlP)
     THEN /\ upc' = "returned" /\ updateResult' = Null /\ rmSync' = rmSync
          /\ UNCHANGED << started, unpackVars >>
     ELSE /\ upc' = "awaitUnpack" /\ updateResult' = updateResult /\ rmSync' = rmSync
          /\ started' = started \cup {"unpackAsset"}
          /\ IF archive = "absent" \/ ~dirExists
             THEN /\ unP' = Resolve(unP, Null)
                  /\ UNCHANGED << streams, resolveCalls >>
             ELSE /\ streams' = [s \in StreamNames |-> "active"]
                  /\ UNCHANGED << unP, resolveCalls >>
          /\ UNCHANGED << filenames, isErrored, emitted, tarFinished, seen, accepted, written,
                          firstEvent >>
  /\ UNCHANGED << buildVars, assetVars, dlVars, archive, convVars, inputVars, gaVars, kanaVars >>

\* the unpack stage yields the next entry: the filter decides; an accepted
\* entry is announced to onentry and unpacked under cwd (update.js 230-246)
TarEntry ==
  /\ upc = "awaitUnpack"
  /\ streams["tarExtractStream"] = "active" /\ ~tarFinished
  /\ Len(seen) < MaxEntries
  /\ \E e \in ArchiveEntries :
       /\ seen' = Append(seen, e)
       /\ IF FilterAccepts(outputFolder, e.path)
          THEN /\ accepted' = accepted \cup {e}
               /\ filenames' = OnEntry(filenames, e)
               /\ written' = written \cup {PathJoin(outputFolder, e.path)}
          ELSE UNCHANGED << accepted, filenames, written >>
  /\ UNCHANGED << buildVars, updateVars, started, assetVars, dlVars, archive, unP, isErrored,
                  streams, emitted, tarFinished, resolveCalls, firstEvent, convVars,
                  inputVars, gaVars, kanaVars >>

\* handleError, update.js 247-255
HandleError ==
  IF isErrored
  THEN UNCHANGED << isErrored, streams, unP, resolveCalls >>
  ELSE /\ isErrored' = TRUE
       /\ streams' = [s \in StreamNames |-> "destroyed"]
       /\ unP' = Resolve(unP, Null)
       /\ resolveCalls' = resolveCalls + 1

\* faulty variant of OnFinish: isErrored is not tested
OnFinishUnguarded ==
  /\ unP' = Resolve(unP, Val(filenames))
  /\ resolveCalls' = resolveCalls + 1
\* the 'finish' handler of tarExtractStream, update.js 259-263
OnFinish ==
  IF isErrored
  THEN UNCHANGED << unP, resolveCalls >>
  ELSE /\ unP' = Resolve(unP, Val(filenames))
       /\ resolveCalls' = resolveCalls + 1

\* 'error' of one of the three streams (update.js 256-258); each stream
\* emits it at most once, and it may still arrive after the stream was
\* destroyed or after 'finish'
UnpackStreamError ==
  /\ upc = "awaitUnpack"
  /\ \E s \in StreamNames :
       /\ streams[s] # "none" /\ s \notin emitted
       /\ emitted' = emitted \cup {s}
  /\ firstEvent' = IF firstEvent = "none" THEN "error" ELSE firstEvent
  /\ HandleError
  /\ UNCHANGED << buildVars, updateVars, started, assetVars, dlVars, archive, filenames,
                  tarFinished, seen, accepted, written, convVars, inputVars, gaVars, kanaVars >>

\* 'finish' of tarExtractStream
TarFinish ==
  /\ upc = "awaitUnpack"
  /\ streams["tarExtractStream"] # "none" /\ ~tarFinished
  /\ tarFinished' = TRUE
  /\ firstEvent' = IF firstEvent = "none" THEN "finish" ELSE firstEvent
  /\ OnFinish
  /\ UNCHANGED << buildVars, updateVars, started, assetVars, dlVars, archive, filenames,
                  isErrored, streams, emitted, seen, accepted, written, convVars, inputVars,
                  gaVars, kanaVars >>

\* faulty variant of UpdateReturn: the catch block does not return
UpdateReturnIgnoresRm(files, rmThrew) ==
  IF IsVal(files) /\ Len(Get(files)) > 0 THEN Val(Get(files)[1]) ELSE Null
\* what update returns, update.js 59-65: null when rmSync threw, else files[0]
\* when files is a non-empty array
UpdateReturn(files, rmThrew) ==
  IF rmThrew THEN Null
  ELSE IF IsVal(files) /\ Len(Get(files)) > 0 THEN Val(Get(files)[1]) ELSE Null

\* faulty variant of UpdateAfterUnpack: update returns null on a failed
\* extraction before it removes the archive
UpdateAfterUnpackFailedFirst ==
  /\ upc = "awaitUnpack" /\ ~IsPending(unP)
  /\ upc' = "returned"
  /\ \E rmThrows \in BOOLEAN :
       LET rmThrew == archive # "absent" /\ rmThrows
       IN IF IsNull(unP)
          THEN /\ updateResult' = Null
               /\ UNCHANGED << archive, rmSync >>
          ELSE /\ archive' = IF rmThrew THEN archive ELSE "absent"
               /\ rmSync' = IF archive = "absent" THEN "none"
                            ELSE IF rmThrew THEN "threw" ELSE "done"
               /\ updateResult' = UpdateReturn(unP, rmThrew)
  /\ UNCHANGED << buildVars, started, assetVars, dlVars, unpackVars, convVars, inputVars,
                  gaVars, kanaVars >>
\* update after "await unpackAsset" (update.js 55-65): the archive is removed
\* when it exists; rmSync may throw
UpdateAfterUnpack ==
  /\ upc = "awaitUnpack" /\ ~IsPending(unP)
  /\ upc' = "returned"
  /\ \E rmThrows \in BOOLEAN :
       LET rmThrew == archive # "absent" /\ rmThrows
       IN /\ archive' = IF rmThrew THEN archive ELSE "absent"
          /\ rmSync' = IF archive = "absent" THEN "none"
                       ELSE IF rmThrew THEN "threw" ELSE "done"
          /\ updateResult' = UpdateReturn(unP, rmThrew)
  /\ UNCHANGED << buildVars, started, assetVars, dlVars, unpackVars, convVars, inputVars,
                  gaVars, kanaVars >>

\* ------------------------------------------------------------------------
\* convert (convert.js) and the rest of build.js main
\* ------------------------------------------------------------------------
ReadOutcomes == {"error", "badjson", "nowords", "ok"}

\* convert.js 38: path.join(__dirname, dataFolder, fileName)
InputFilePath(fileName) == PathJoin(PathJoin(dirname, dataFolder), fileName)

\* the synchronous part of convert, convert.js 31-49: r is the argument
ConvertCall(r) ==
  /\ started' = started \cup {"convert"}
  /\ convArg' = r /\ runs' = runs + 1
  /\ finalOutput' = NoDoc /\ writes' = {}
  /\ IF ~IsVal(r) \/ Len(Get(r)) = 0
     THEN \* typeof fileName !== 'string' || fileName.length === 0
          /\ convP' = Resolve(Pending, Val(FALSE)) /\ cpc' = "settled"
          /\ fault' = "fileName"
     ELSE IF InputFilePath(Get(r)) \notin written
          THEN \* fs.existsSync(inputFilePath) === false
               /\ convP' = Resolve(Pending, Val(FALSE)) /\ cpc' = "settled"
               /\ fault' = "missing"
          ELSE \* fs.readFile is issued
               /\ convP' = Pending /\ cpc' = "reading"
               /\ fault' = "none"
  /\ UNCHANGED << plainFile, gzFile, srcFile, docs, plainData, gzData >>

\* build.js main after "await update" (build.js 17-19)
BuildAfterUpdate ==
  /\ entry = "build" /\ bpc = "awaitUpdate" /\ upc = "returned"
  /\ IF UpdateFailed(updateResult)
     THEN /\ success' = FALSE /\ bpc' = "reported"
          /\ UNCHANGED << started, convVars >>
     ELSE /\ success' = success /\ bpc' = "awaitConvert"
          /\ ConvertCall(updateResult)
  /\ UNCHANGED << updateVars, assetVars, dlVars, archive, unpackVars, inputVars, gaVars,
                  kanaVars >>

\* whether the path convert reads is a directory
IsDirectory(p) == \E e \in accepted : e.type = "Directory" /\ PathJoin(outputFolder, e.path) = p

\* what JSON.parse and jmdictData.words make of the file, convert.js 57, 65
Parsed(src) ==
  CASE src.kind = "garbage" -> "badjson"
    [] src.kind = "nowords" -> "nowords"
    [] OTHER -> "ok"

\* faulty variant of FinalOutput: dictDate is taken from the run, not from
\* the source
FinalOutputStamped(src, h2kk) ==
  [version |-> src.version, dictDate |-> << 48 + runs >>, words |-> h2kk]
\* convert.js 83-96
FinalOutput(src, h2kk) ==
  [version |-> src.version, dictDate |-> src.dictDate, words |-> h2kk]

\* the readFile callback, convert.js 49-100; the content of a file the
\* unpack stage wrote is fixed when it is first read
ConvertRead ==
  /\ cpc = "reading"
  /\ \E outcome \in ReadOutcomes :
     \E src \in (IF srcFile = NoSource THEN SampleSources ELSE {srcFile}) :
       /\ IsDirectory(InputFilePath(Get(convArg))) => outcome = "error"
       /\ outcome # "error" => outcome = Parsed(src)
       /\ srcFile' = IF outcome = "error" THEN srcFile ELSE src
       /\ CASE outcome = "error" ->
                 /\ convP' = Resolve(convP, Val(FALSE)) /\ cpc' = "settled"
                 /\ fault' = "read"
                 /\ UNCHANGED << finalOutput, docs >>
            [] outcome = "badjson" ->
                 \* JSON.parse throws inside its try
                 /\ convP' = Resolve(convP, Val(FALSE)) /\ cpc' = "settled"
                 /\ fault' = "badjson"
                 /\ UNCHANGED << finalOutput, docs >>
            [] outcome = "nowords" ->
                 \* jmdictData.words.forEach throws in the callback, outside any try
                 /\ convP' = convP /\ cpc' = "uncaught"
                 /\ fault' = "nowords"
                 /\ UNCHANGED << finalOutput, docs >>
            [] outcome = "ok" ->
                 \* the index is built and fs.writeFile issued
                 /\ convP' = convP /\ cpc' = "writing"
                 /\ fault' = "none"
                 /\ finalOutput' = FinalOutput(src, IndexWords(<<>>, src.words))
                 /\ docs' = Append(docs, finalOutput')
  /\ UNCHANGED << buildVars, updateVars, started, assetVars, dlVars, archive, unpackVars,
                  plainFile, gzFile, convArg, runs, plainData, gzData, writes, inputVars,
                  gaVars, kanaVars >>

\* faulty variant of createGzipVersion
createGzipVersionOff == FALSE
\* convert.js 12
createGzipVersion == TRUE

\* the writeFile callback, convert.js 100-111: writeFile fails on opening
\* the file, which leaves it as it was, or while writing it
ConvertWritten ==
  /\ cpc = "writing"
  /\ \E outcome \in {"open", "write", "ok"} :
       CASE outcome = "open" ->
              /\ convP' = Resolve(convP, Val(FALSE)) /\ cpc' = "settled"
              /\ fault' = "write"
              /\ UNCHANGED << plainFile, plainData, gzFile, gzData, writes >>
         [] outcome = "write" ->
              /\ convP' = Resolve(convP, Val(FALSE)) /\ cpc' = "settled"
              /\ fault' = "write"
              /\ plainFile' = "partial" /\ plainData' = <<>>
              /\ writes' = writes \cup {"plain"}
              /\ UNCHANGED << gzFile, gzData >>
         [] outcome = "ok" ->
              /\ plainFile' = "written" /\ plainData' = Serialize(finalOutput)
              /\ fault' = "none"
              /\ IF createGzipVersion = FALSE
                 THEN /\ convP' = Resolve(convP, Val(TRUE)) /\ cpc' = "settled"
                      /\ writes' = writes \cup {"plain"}
                      /\ UNCHANGED << gzFile, gzData >>
                 ELSE \* the gzip pipeline is set up; createWriteStream
                      \* empties the compressed file
                      /\ convP' = convP /\ cpc' = "gzipping"
                      /\ gzFile' = "partial" /\ gzData' = <<>>
                      /\ writes' = writes \cup {"plain", "gz"}
  /\ UNCHANGED << buildVars, updateVars, started, assetVars, dlVars, archive, unpackVars,
                  convArg, runs, srcFile, finalOutput, docs, inputVars, gaVars, kanaVars >>

\* 'finish' of the gzip output stream, convert.js 111-118: the event carries
\* no argument, so the handler resolves true
ConvertGzipFinish ==
  /\ cpc = "gzipping"
  /\ gzFile' = "complete" /\ gzData' = Gzip(plainData)
  /\ convP' = Resolve(convP, Val(TRUE)) /\ cpc' = "settled"
  /\ UNCHANGED << buildVars, updateVars, started, assetVars, dlVars, archive, unpackVars,
                  plainFile, convArg, runs, srcFile, finalOutput, docs, plainData, fault,
                  writes, inputVars, gaVars, kanaVars >>

\* 'error' of the input, gzip or output stream of the pipeline: none of them
\* has an 'error' listener (convert.js 108-111), so the error is thrown as an
\* uncaught exception
ConvertGzipError ==
  /\ cpc = "gzipping"
  /\ cpc' = "uncaught" /\ fault' = "gzip"
  /\ UNCHANGED << buildVars, updateVars, started, assetVars, dlVars, archive, unpackVars,
                  convP, plainFile, gzFile, convArg, runs, srcFile, finalOutput, docs,
                  plainData, gzData, writes, inputVars, gaVars, kanaVars >>

\* build.js main after "await convert" (build.js 19-20)
BuildAfterConvert ==
  /\ bpc = "awaitConvert" /\ ~IsPending(convP)
  /\ success' = Get(convP) /\ bpc' = "reported"
  /\ UNCHANGED << updateVars, started, assetVars, dlVars, archive, unpackVars, convVars,
                  inputVars, gaVars, kanaVars >>

Next ==
  \/ Main
  \/ GetAssetResponse
  \/ GetAssetError
  \/ UpdateAfterGetAsset
  \/ DownloadResponse
  \/ DownloadData
  \/ DownloadFinish
  \/ DownloadFileError
  \/ DownloadRequestError
  \/ UpdateAfterDownload
  \/ TarEntry
  \/ UnpackStreamError
  \/ TarFinish
  \/ UpdateAfterUnpack
  \/ BuildAfterUpdate
  \/ ConvertRead
  \/ ConvertWritten
  \/ ConvertGzipFinish
  \/ ConvertGzipError
  \/ BuildAfterConvert

Spec == Init /\ [][Next]_vars

\* ------------------------------------------------------------------------
\* getAsset on its own: every combination of prefix, extension and response
\* ------------------------------------------------------------------------
GaInputs ==
  [event : {"end", "error"}, status : MetaStatuses, body : Bodies,
   pre : {NoString, prefix}, ext : {NoString, extension}]

\* what getAsset's promise is settled with, update.js 78-137
GetAsset(in) ==
  IF in.event = "end" THEN GetAssetEnd(in.status, in.body, in.pre, in.ext) ELSE Null

InitGetAsset ==
  /\ entry = "update" /\ tagArg = "string" /\ dirExists = TRUE
  /\ Idle
  /\ written = {} /\ srcFile = NoSource
  /\ gaIn \in GaInputs /\ gaOut = Pending
  /\ kanaIn = <<>> /\ kanaOut = Pending

GetAssetCall ==
  /\ gaIn.event # "none" /\ IsPending(gaOut)
  /\ gaOut' = Resolve(gaOut, GetAsset(gaIn))
  /\ UNCHANGED << buildVars, updateVars, started, assetVars, dlVars, archive, unpackVars,
                  convVars, inputVars, gaIn, kanaVars >>

SpecGetAsset == InitGetAsset /\ [][GetAssetCall]_vars

\* ------------------------------------------------------------------------
\* convert.js on its own (convert.js 17-23): convert(process.argv[2]), run
\* up to MaxRuns times over the same data and release directories
\* ------------------------------------------------------------------------
SourceName == << "a" >>
OtherName == << "x" >>
\* process.argv[2]: undefined, the empty string, the name of the source
\* file, a name no file has
ConvertArgs == { Null, Val(NoString), Val(SourceName), Val(OtherName) }

InitConvert ==
  /\ entry = "convert" /\ tagArg = "undefined" /\ dirExists = TRUE
  /\ Idle
  /\ written = { InputFilePath(SourceName) } /\ srcFile \in Sources
  /\ gaIn = NoCall /\ gaOut = Pending
  /\ kanaIn = <<>> /\ kanaOut = Pending

ConvertMain ==
  /\ entry = "convert" /\ cpc \in {"idle", "settled", "uncaught"}
  /\ runs < MaxRuns
  /\ \E arg \in ConvertArgs : ConvertCall(arg)
  /\ UNCHANGED << buildVars, updateVars, assetVars, dlVars, archive, unpackVars, inputVars,
                  gaVars, kanaVars >>

NextConvert ==
  \/ ConvertMain
  \/ ConvertRead
  \/ ConvertWritten
  \/ ConvertGzipFinish
  \/ ConvertGzipError

SpecConvert == InitConvert /\ [][NextConvert]_vars

\* ------------------------------------------------------------------------
\* the conversion of a reading to katakana on its own, over every text of
\* up to MaxKanaLen code units
\* ------------------------------------------------------------------------
InitKatakana ==
  /\ entry = "convert" /\ tagArg = "undefined" /\ dirExists = TRUE
  /\ Idle
  /\ written = {} /\ srcFile = NoSource
  /\ gaIn = NoCall /\ gaOut = Pending
  /\ kanaIn \in KanaTexts /\ kanaOut = Pending

KatakanaCall ==
  /\ IsPending(kanaOut)
  /\ kanaOut' = Val(ToKatakana(kanaIn))
  /\ UNCHANGED << buildVars, updateVars, started, assetVars, dlVars, archive, unpackVars,
                  convVars, inputVars, gaVars, kanaIn >>

SpecKatakana == InitKatakana /\ [][KatakanaCall]_vars

\* ------------------------------------------------------------------------
\* Properties
\* ------------------------------------------------------------------------
Range(f) == {f[i] : i \in DOMAIN f}

\* a normalized absolute path lies in directory dir (or is dir itself)
Inside(abs, dir) ==
  \/ abs = dir
  \/ StartsWith(abs, dir \o <<SEP>>)

\* C1: a later stage is started only when every earlier stage returned a
\* value: downloadAsset only after getAsset resolved an asset, unpackAsset only
\* after downloadAsset resolved a path, convert only after update returned a
\* filename; a null asset or a null download makes update return null, and a
\* null update makes the build report failure.
C1_StagesShortCircuit ==
  /\ "downloadAsset" \in started => IsVal(assetP)
  /\ "unpackAsset" \in started => IsVal(dlP)
  /\ "convert" \in started => IsVal(updateResult)
  /\ (upc = "returned" /\ (IsNull(assetP) \/ IsNull(dlP))) => IsNull(updateResult)
  /\ (bpc = "reported" /\ IsNull(updateResult)) => success = FALSE
\* the build has reported failure after a failed download, with neither
\* unpackAsset nor convert called
C1_Witness ==
  /\ entry = "build" /\ bpc = "reported" /\ success = FALSE
  /\ IsVal(assetP) /\ IsNull(dlP)
  /\ started = {"getAsset", "downloadAsset"}

\* C2: the filter accepts no entry whose path, joined to destDir, lies outside
\* destDir (a sibling directory whose name begins with destDir's name
\* included), and nothing is written outside destDir.
C2_NoEscapeAccepted ==
  /\ \A e \in accepted : Inside(PathJoin(outputFolder, e.path), outputFolder)
  /\ \A w \in written : Inside(w, outputFolder)

\* C3: when the unpack stage finishes without a stream error, unpackAsset
\* resolves to a list, and every entry it yielded whose path stays inside
\* destDir has been written (and is listed, when a file or a directory),
\* whatever escaping entries the archive also held.
C3_EscapeNotFatal ==
  firstEvent = "finish" =>
    /\ IsVal(unP)
    /\ \A i \in 1..Len(seen) :
         Inside(PathJoin(outputFolder, seen[i].path), outputFolder) =>
           /\ PathJoin(outputFolder, seen[i].path) \in written
           /\ seen[i].type \in {"File", "Directory"} => seen[i].path \in Range(Get(unP))
\* an archive with a rejected escaping entry and an extracted sibling
C3_Witness ==
  /\ firstEvent = "finish" /\ emitted = {} /\ IsVal(unP)
  /\ \E i, j \in 1..Len(seen) :
       /\ seen[i] \notin accepted
       /\ ~Inside(PathJoin(outputFolder, seen[i].path), outputFolder)
       /\ seen[j].type = "File"
       /\ PathJoin(outputFolder, seen[j].path) \in written
       /\ seen[j].path \in Range(Get(unP))

\* C4: at most 5 redirects are followed: never more than 6 requests are
\* issued; the 6th redirect resolves null with no further request; a 2xx
\* response after 5 or fewer redirects, once written, resolves to the path.
C4_RedirectBound ==
  /\ redirectCount <= 6
  /\ requests <= 6
  /\ reqState \in {"inflight", "responded"} => redirectCount <= 5
  /\ redirectCount = 6 => (IsNull(dlP) /\ reqState = "none" /\ requests = 6)
  /\ fileStream = "finished" => (IsVal(dlP) /\ redirectCount <= 5)
\* a download that succeeded after exactly 5 redirects
C4_Witness ==
  /\ redirectCount = 5 /\ requests = 6
  /\ fileStream = "finished" /\ IsVal(dlP)

\* C5: no stage throws out of its promise: convert never ends in an uncaught
\* exception (every stage settles with a value).
C5_NoStageThrows == cpc # "uncaught"

C7_FailuresResolveNull ==
  (/\ ~IsPending(gaOut)
   /\ \/ gaIn.event = "error"
      \/ gaIn.status < 200 \/ gaIn.status >= 300
      \/ gaIn.body.kind # "json") => gaOut = Null
\* a 404 whose body lists an asset that would match
C7_Witness ==
  /\ gaOut = Null
  /\ gaIn.event = "end" /\ gaIn.status = 404
  /\ gaIn.body.kind = "json" /\ Len(gaIn.body.assets) > 0
  /\ StartsWith(gaIn.body.assets[1].name, prefix)
  /\ EndsWith(gaIn.body.assets[1].name, extension)
  /\ gaIn.pre = prefix /\ gaIn.ext = extension

\* C8: once downloadAsset has settled, the archive file exists when it
\* resolved to a path, and no file of this download is left when it resolved
\* to null.
C8_NoFileLeftOnFailure ==
  (upc = "awaitDownload" /\ ~IsPending(dlP)) =>
    /\ IsVal(dlP) => archive = "complete"
    /\ IsNull(dlP) => archive = "absent"

\* C9: downloadAsset resolves to null when destDir does not exist (no request
\* issued, no file created), when the response is neither 2xx nor a redirect
\* with a Location, and on a transport or write-stream error; it resolves to
\* a path only after the whole body has been written to the file.
C9_DownloadNullOrComplete ==
  /\ ~dirExists =>
       /\ requests = 0 /\ archive = "absent" /\ fileStream = "none"
       /\ "downloadAsset" \in started => IsNull(dlP)
  /\ reqState \in {"done", "errored"} => IsNull(dlP)
  /\ fileStream = "errored" => IsNull(dlP)
  /\ IsVal(dlP) =>
       /\ fileStream = "finished" /\ bodyLeft = 0
       /\ upc = "awaitDownload" => archive = "complete"
\* the download has resolved to the path of the completely written archive
C9_Witness ==
  /\ upc = "awaitDownload" /\ IsVal(dlP)
  /\ Get(dlP) = PathJoin(outputFolder, Get(assetP).name)
  /\ archive = "complete" /\ fileStream = "finished"

\* C10: when a stream error is the first event unpackAsset handles, it
\* resolves to null, all three streams are destroyed, resolve has been called
\* exactly once however many 'finish' or 'error' events follow, and the files
\* written so far are still there.
C10_FirstErrorSettlesOnce ==
  firstEvent = "error" =>
    /\ IsNull(unP)
    /\ \A s \in StreamNames : streams[s] = "destroyed"
    /\ resolveCalls = 1
    /\ \A e \in accepted : PathJoin(outputFolder, e.path) \in written
\* an error was handled first; a second error and 'finish' came after it, and
\* a file written before is in place
C10_Witness ==
  /\ firstEvent = "error" /\ tarFinished /\ Cardinality(emitted) >= 2
  /\ IsNull(unP) /\ written # {}

\* C11: the filename update returns on success is the path of the first
\* entry of type File of the archive, also when a directory is listed first.
C11_ReturnsFirstFile ==
  (upc = "returned" /\ IsVal(updateResult)) =>
    \E i \in 1..Len(seen) :
      /\ seen[i].type = "File" /\ seen[i] \in accepted
      /\ Get(updateResult) = seen[i].path
      /\ \A j \in 1..(i - 1) : ~(seen[j].type = "File" /\ seen[j] \in accepted)

\* the paths of a sequence of entries
PathsOf(es) == [i \in 1..Len(es) |-> es[i].path]

\* C12: on success unpackAsset resolves to the paths of the File and
\* Directory entries handed to it, in the order the unpack stage yielded
\* them, none reordered, repeated or dropped, entries of other types left out.
C12_ListInEncounterOrder ==
  IsVal(unP) =>
    LET Listed(e) == e \in accepted /\ e.type \in {"File", "Directory"}
    IN Get(unP) = PathsOf(SelectSeq(seen, Listed))
\* a symbolic link and a directory or file were unpacked; only the latter is
\* listed
C12_Witness ==
  /\ IsVal(unP) /\ Len(seen) = 2 /\ Len(Get(unP)) = 1
  /\ \E i \in 1..2 : seen[i].type = "SymbolicLink" /\ seen[i] \in accepted
  /\ \E i \in 1..2 : seen[i].type = "Directory" /\ Get(unP) = <<seen[i].path>>

\* C13: whenever update returns a filename the downloaded archive is gone
\* from the data directory and the extracted files are still there.
C13_ArchiveRemovedOnSuccess ==
  (upc = "returned" /\ IsVal(updateResult)) =>
    /\ archive = "absent"
    /\ \A e \in accepted : PathJoin(outputFolder, e.path) \in written
    /\ PathJoin(outputFolder, Get(updateResult)) \in written
\* update has returned the extracted file's name after removing the archive
C13_Witness ==
  /\ upc = "returned" /\ IsVal(updateResult)
  /\ fileStream = "finished" /\ archive = "absent"
  /\ PathJoin(outputFolder, Get(updateResult)) \in written

\* C14: the katakana form of a reading has the length of the reading, and
\* each of its code units is the reading's code unit plus 0x60 when that lies
\* in U+3040..U+309F and the reading's code unit itself otherwise.
C14_KatakanaShift ==
  IsVal(kanaOut) =>
    /\ Len(Get(kanaOut)) = Len(kanaIn)
    /\ \A i \in 1..Len(kanaIn) :
         Get(kanaOut)[i] = IF kanaIn[i] >= 12352 /\ kanaIn[i] <= 12447
                           THEN kanaIn[i] + 96
                           ELSE kanaIn[i]
\* a reading with both ends of the range, converted
C14_Witness ==
  /\ kanaIn = << 12352, 12447, 12448 >>
  /\ kanaOut = Val(<< 12448, 12543, 12448 >>)

\* the texts of a sequence, as a set
Texts(seq) == { seq[i] : i \in 1..Len(seq) }
\* the entries of the source, in a run that has built its document
SourceWords == { srcFile.words[i] : i \in 1..Len(srcFile.words) }
Indexed == finalOutput # NoDoc

\* C15: words has a key h exactly when h is the text of a kana reading of
\* some entry, and the kanji of h's bucket are, as a set, the union of the
\* whole kanji lists of the entries that have h among their readings; an
\* entry without kana readings adds nothing.
C15_IndexIsUnionPerReading ==
  Indexed =>
    LET words == finalOutput.words
        Keys == { words[i].key : i \in 1..Len(words) }
    IN /\ Keys = UNION { Texts(e.kana) : e \in SourceWords }
       /\ \A i \in 1..Len(words) :
            Texts(words[i].kanji) =
              UNION { Texts(e.kanji) : e \in { w \in SourceWords : words[i].key \in Texts(w.kana) } }
\* two entries share the reading KanaAi and bring different kanji
C15_Witness ==
  /\ Indexed /\ Len(srcFile.words) = 2
  /\ srcFile.words[1] = [kanji |-> <<KanjiA>>, kana |-> <<KanaAi>>]
  /\ srcFile.words[2] = [kanji |-> <<KanjiA, KanjiB>>, kana |-> <<KanaAi, KanaA>>]
  /\ finalOutput.words[1].kanji = <<KanjiA, KanjiB>>

\* C16: no bucket's katakana or kanji array holds a string twice, and every
\* key occurs once in words.
C16_NoDuplicates ==
  Indexed =>
    LET words == finalOutput.words
        NoRepeat(seq) == \A i, j \in 1..Len(seq) : seq[i] = seq[j] => i = j
    IN /\ \A i, j \in 1..Len(words) : words[i].key = words[j].key => i = j
       /\ \A i \in 1..Len(words) : NoRepeat(words[i].katakana) /\ NoRepeat(words[i].kanji)
\* an entry that names a kanji and a reading twice, and a second entry with
\* the same kanji, have been indexed
C16_Witness ==
  /\ Indexed /\ Len(srcFile.words) = 2
  /\ srcFile.words[1] = [kanji |-> <<KanjiA, KanjiA>>, kana |-> <<KanaA, KanaA>>]
  /\ srcFile.words[2] = [kanji |-> <<KanjiA, KanjiB>>, kana |-> <<KanaAi, KanaA>>]
  /\ finalOutput.words[1] = [key |-> KanaA, katakana |-> <<ToKatakana(KanaA)>>,
                             kanji |-> <<KanjiA, KanjiB>>]

C18_TrueMeansBothFiles ==
  convP = Val(TRUE) =>
    /\ plainFile = "written" /\ gzFile = "complete"
    /\ plainData = Serialize(finalOutput)
    /\ Gunzip(gzData) = plainData
\* a run over a dictionary of two entries has resolved true
C18_Witness ==
  /\ convP = Val(TRUE) /\ Len(srcFile.words) = 2 /\ Len(finalOutput.words) = 2
  /\ gzFile = "complete" /\ gzData # plainData /\ Gunzip(gzData) = plainData

\* C19: convert resolves false and writes neither output file when fileName
\* is not a non-empty string, the source file is missing or unreadable, or
\* its content is not valid JSON or lacks 'words'; nothing is written before
\* the source is parsed and indexed.
C19_BadSourceResolvesFalse ==
  /\ fault \in {"fileName", "missing", "read", "badjson", "nowords"} =>
       convP = Val(FALSE) /\ writes = {}
  /\ writes # {} => Indexed

\* C20: convert resolves false whenever writing the plain file fails or the
\* compressed copy fails; after a failed compression the plain file is left
\* in place; true is resolved only once the compressed file is complete.
C20_WriteFailuresResolveFalse ==
  /\ fault \in {"write", "gzip"} => convP = Val(FALSE)
  /\ fault = "gzip" => plainFile = "written" /\ plainData = Serialize(finalOutput)
  /\ convP = Val(TRUE) => gzFile = "complete"

\* C22: in every document convert builds, the katakana array of each bucket
\* has exactly one element, the bucket's key with 0x60 added to each code
\* unit in U+3040..U+309F; a key that is katakana already is its own
\* katakana element.
C22_OneKatakanaPerKey ==
  Indexed =>
    \A i \in 1..Len(finalOutput.words) :
      LET b == finalOutput.words[i]
      IN /\ Len(b.katakana) = 1
         /\ Len(b.katakana[1]) = Len(b.key)
         /\ \A k \in 1..Len(b.key) :
              b.katakana[1][k] = IF b.key[k] >= 12352 /\ b.key[k] <= 12447
                                 THEN b.key[k] + 96
                                 ELSE b.key[k]
\* a katakana reading, a hiragana reading and a reading of two hiragana
\* have been indexed
C22_Witness ==
  /\ Indexed /\ Len(finalOutput.words) = 3
  /\ finalOutput.words[1].key = KataA /\ finalOutput.words[1].katakana = << KataA >>
  /\ finalOutput.words[2].key = KanaA /\ finalOutput.words[2].katakana = << KataA >>
  /\ finalOutput.words[3].key = KanaAi
  /\ finalOutput.words[3].katakana = << << 12450, 12452 >> >>

\* C23: once the download has succeeded, update removes the archive whether
\* the extraction succeeded or failed; after a failed extraction it returns
\* null, the archive removed; when removing the archive throws it returns
\* null even though the extraction succeeded.
C23_ArchiveRemovedEitherWay ==
  (upc = "returned" /\ IsVal(dlP)) =>
    /\ rmSync \in {"done", "threw"}
    /\ rmSync = "done" => archive = "absent"
    /\ rmSync = "threw" => updateResult = Null
    /\ IsNull(unP) => updateResult = Null
\* the extraction failed after the download succeeded; update has removed
\* the archive and returned null
C23_Witness ==
  /\ upc = "returned" /\ IsVal(dlP) /\ IsNull(unP)
  /\ rmSync = "done" /\ archive = "absent" /\ updateResult = Null

\* C21: the stages of one pipeline run never overlap: a download request is
\* issued only after the metadata request has completed, the archive is read
\* for extraction only after the download's file stream has finished, the
\* archive is removed only after the extraction has finished or failed,
\* convert is called only after update has returned, and the compression
\* reads the plain output file only after it has been written.
C21_StagesInSequence ==
  /\ (requests > 0 \/ "downloadAsset" \in started) => metaReq = "done" /\ ~IsPending(assetP)
  /\ (\E s \in StreamNames : streams[s] # "none") => fileStream = "finished" /\ IsVal(dlP)
  /\ rmSync # "none" => ~IsPending(unP)
  /\ "convert" \in started => upc = "returned"
  /\ cpc = "gzipping" => plainFile = "written" /\ "plain" \in writes
\* a whole run of build.js: every stage has run and the compression, which
\* followed the removal of the archive, is under way
C21_Witness ==
  /\ entry = "build" /\ started = {"getAsset", "downloadAsset", "unpackAsset", "convert"}
  /\ requests > 0 /\ fileStream = "finished" /\ rmSync = "done"
  /\ cpc = "gzipping" /\ plainFile = "written"

====
